---- MODULE Spec2Model ----
(***************************************************************************)
(* Model of mcp-bitwarden (src/mcp-bitwarden/src/main.rs): a warp HTTP     *)
(* server that resolves a secret name to its value by running the bws CLI  *)
(* twice ("secret list", then "secret get <id>").  The model covers main   *)
(* and get_secret_handler; the stateless /health route is left out.        *)
(***************************************************************************)
EXTENDS Integers, Sequences, FiniteSets, TLC

(* ------------------------------ bounds --------------------------------- *)
\* Number of /secret requests a run serves (they may be in flight together).
NumReq == 1
\* Largest number of identifiers "bws secret list" returns.
MaxSecrets == 2

(* -------------------- values the environment supplies ------------------ *)
\* The 128-bit organization ids that exist.
Uuids == {"orgA", "orgB"}
\* Secret names.
Keys == {"DB_PASS", "API_KEY"}

\* A piece of text offered to Uuid::parse_str: the textual form, the case of
\* its hex digits, and the 128-bit value the digits spell ("malformed" is any
\* text in none of the accepted forms).
UuidText(form, upper, uuid) == [form |-> form, upper |-> upper, uuid |-> uuid]
MalformedText == UuidText("malformed", FALSE, "none")

\* Uuid::parse_str accepts the hyphenated, simple, urn and braced forms in
\* either case, and fails on anything else.
parse_str_lenient(text) ==
    IF text.form = "malformed" THEN [ok |-> TRUE, uuid |-> "orgA"]
    ELSE [ok |-> TRUE, uuid |-> text.uuid]
parse_str(text) ==
    IF text.form \in {"hyphenated", "simple", "urn", "braced"}
    THEN [ok |-> TRUE, uuid |-> text.uuid]
    ELSE [ok |-> FALSE, uuid |-> "none"]

\* Uuid's Display: always lower-case hyphenated.
to_string(uuid) == UuidText("hyphenated", FALSE, uuid)

\* The org_id path segments requests carry: one organization written in a
\* form other than the one to_string produces, the other written exactly as
\* to_string writes it, and a text that is no UUID.
OrgIdStrs ==
    { UuidText("simple", TRUE, "orgA"),
      UuidText("hyphenated", FALSE, "orgB"),
      MalformedText }

\* The credential the callers are meant to present and the Authorization
\* header values requests carry ("" stands for no header at all).
ApiCredential == "s3cr3t"
ExpectedHeader == "Bearer " \o ApiCredential
NoHeader == ""
Headers == {NoHeader, ExpectedHeader, "Bearer wrong"}

\* RetryPolicy's default number of attempts.
MaxAttempts == 3

\* BWS_ACCESS_TOKEN as std::env::var sees it: absent, present but not valid
\* unicode, or present with some text.
TokenEnvs == {"unset", "not_unicode", "value"}

(* ------------------------------ the vault ------------------------------ *)
IdOf(i) == "id" \o ToString(i)
\* BwsSecretIdentifier (the fields the handler reads).
BwsSecretIdentifier(i, org, key) ==
    [id |-> IdOf(i), organization_id |-> to_string(org), key |-> key]
\* The value the vault holds under an id.
ValueOf(id) == "value-of-" \o id

\* Vault snapshots: up to MaxSecrets identifiers, ids unique, in the order
\* bws returns them.
RECURSIVE Snapshots(_)
Snapshots(n) ==
    IF n = 0 THEN { <<>> }
    ELSE LET shorter == Snapshots(n - 1)
         IN  shorter \cup
             { Append(s, BwsSecretIdentifier(Len(s) + 1, o, k)) :
                 s \in {t \in shorter : Len(t) = n - 1}, o \in Uuids, k \in Keys }

\* Raw error texts the vault side produces.
StderrText == "Error: Missing access token"
ExecErrText == "No such file or directory (os error 2)"
ParseErrText == "expected value at line 1 column 1"
RawErrorTexts == {StderrText, ExecErrText, ParseErrText}

\* What Command::output() can give back.
ExecError == [kind |-> "exec_err", text |-> ExecErrText]
ExitFailure == [kind |-> "exit_fail", text |-> StderrText]
Garbage == [kind |-> "ok", json |-> "garbage"]
ListSuccess(list) == [kind |-> "ok", json |-> "array", items |-> list]
GetSuccess(s) == [kind |-> "ok", json |-> "object",
                  key |-> s.key, value |-> ValueOf(s.id)]

VARIABLES token_env, proc, vault, req
vars == <<token_env, proc, vault, req>>

Reqs == 1..NumReq

(* ------------------------------ responses ------------------------------ *)
NoResponse == [status |-> 0]
Response(status, body) == [status |-> status, body |-> body]

BadRequestResponse ==
    Response(400, [error |-> "Invalid organization ID format"])
ListFailedResponse(out) ==
    Response(500, [error |-> "Failed to list secrets via bws CLI", details |-> out.text])
ListExecResponse(out) ==
    Response(500, [error |-> "bws CLI not available", details |-> out.text])
ListParseResponse ==
    Response(500, [error |-> "Failed to parse bws output", details |-> ParseErrText])
GetFailedResponse(out) ==
    Response(500, [error |-> "Failed to get secret via bws CLI", details |-> out.text])
GetExecResponse(out) ==
    Response(500, [error |-> "bws CLI execution failed", details |-> out.text])
GetParseResponse ==
    Response(500, [error |-> "Failed to parse secret details", details |-> ParseErrText])
SecretResponse(secret) ==
    Response(200, [key |-> secret.key, value |-> secret.value])

(* ------------------------- the lookup (pure) --------------------------- *)
MatchesKeyOnly(s, secret_key, org_id) == s.key = secret_key
MatchesOrgOnly(s, secret_key, org_id) == s.organization_id = to_string(org_id)
\* The closure of iter().find.
Matches(s, secret_key, org_id) ==
    s.key = secret_key /\ s.organization_id = to_string(org_id)

\* iter().find: index of the first match scanning from the front, 0 if none.
RECURSIVE FindFrom(_, _, _, _)
FindFrom(list, i, secret_key, org_id) ==
    IF i > Len(list) THEN 0
    ELSE IF Matches(list[i], secret_key, org_id) THEN i
    ELSE FindFrom(list, i + 1, secret_key, org_id)
RECURSIVE FindLastFrom(_, _, _, _)
FindLastFrom(list, i, secret_key, org_id) ==
    IF i = 0 THEN 0
    ELSE IF Matches(list[i], secret_key, org_id) THEN i
    ELSE FindLastFrom(list, i - 1, secret_key, org_id)
FindLast(list, secret_key, org_id) == FindLastFrom(list, Len(list), secret_key, org_id)
Find(list, secret_key, org_id) == FindFrom(list, 1, secret_key, org_id)

RECURSIVE AvailableSecretsUnscoped(_, _)
AvailableSecretsUnscoped(list, org_id) ==
    IF list = <<>> THEN <<>>
    ELSE <<Head(list).key>> \o AvailableSecretsUnscoped(Tail(list), org_id)
\* iter().filter(org).map(key).collect()
RECURSIVE AvailableSecrets(_, _)
AvailableSecrets(list, org_id) ==
    IF list = <<>> THEN <<>>
    ELSE IF Head(list).organization_id = to_string(org_id)
         THEN <<Head(list).key>> \o AvailableSecrets(Tail(list), org_id)
         ELSE AvailableSecrets(Tail(list), org_id)

NotFoundResponse(secret_key, list, org_id) ==
    Response(404, [error |-> "Secret '" \o secret_key \o "' not found in organization",
                   available_secrets |-> AvailableSecrets(list, org_id)])

(* ------------------------------- state --------------------------------- *)
IdleReq ==
    [pc |-> "idle", header |-> NoHeader, org_id_str |-> MalformedText,
     secret_key |-> "", org_id |-> "none", secret_id |-> "",
     calls |-> <<>>, outs |-> <<>>, resp |-> NoResponse]

Init ==
    /\ token_env \in TokenEnvs
    /\ proc = "starting"
    /\ vault \in Snapshots(MaxSecrets)
    /\ req = [r \in Reqs |-> IdleReq]

(* ------------------------------- main ---------------------------------- *)
TokenCheckSkipped(env) == TRUE
\* std::env::var(..).expect(..): Err on an unset or non-unicode variable.
TokenCheckPasses(env) == env \notin {"unset", "not_unicode"}

\* main up to warp::serve(..).run(..): panic on the token check, or bind.
Start ==
    /\ proc = "starting"
    /\ proc' = IF TokenCheckPasses(token_env) THEN "serving" ELSE "panicked"
    /\ UNCHANGED <<token_env, vault, req>>

(* ------------------------ get_secret_handler --------------------------- *)
Finish(r, fields) == req' = [req EXCEPT ![r] = fields]

\* The route matches GET /secret/<org>/<key> (no header is looked at) and the
\* handler parses the organization id.
HandlerParse(r) ==
    /\ proc = "serving"
    /\ req[r].pc = "idle"
    /\ \E h \in Headers, o \in OrgIdStrs, k \in Keys :
         LET parsed == parse_str(o)
             base == [req[r] EXCEPT !.header = h, !.org_id_str = o, !.secret_key = k]
         IN  IF parsed.ok
             THEN Finish(r, [base EXCEPT !.pc = "list", !.org_id = parsed.uuid])
             ELSE Finish(r, [base EXCEPT !.pc = "done", !.resp = BadRequestResponse])
    /\ UNCHANGED <<token_env, proc, vault>>

ListOutputs == {ExecError, ExitFailure, Garbage, ListSuccess(vault)}

\* Step 1: "bws secret list", parse, find.
HandlerList(r) ==
    /\ req[r].pc = "list"
    /\ \E out \in ListOutputs :
         LET cur == req[r]
             ran == [cur EXCEPT !.calls = Append(@, [op |-> "list", arg |-> ""]),
                                !.outs = Append(@, out)]
         IN  IF out.kind = "exit_fail"
             THEN Finish(r, [ran EXCEPT !.pc = "done", !.resp = ListFailedResponse(out)])
             ELSE IF out.kind = "exec_err"
             THEN Finish(r, [ran EXCEPT !.pc = "done", !.resp = ListExecResponse(out)])
             ELSE IF out.json # "array"
             THEN Finish(r, [ran EXCEPT !.pc = "done", !.resp = ListParseResponse])
             ELSE LET secrets_list == out.items
                      i == Find(secrets_list, cur.secret_key, cur.org_id)
                  IN  IF i = 0
                      THEN Finish(r, [ran EXCEPT !.pc = "done",
                                        !.resp = NotFoundResponse(cur.secret_key,
                                                                  secrets_list, cur.org_id)])
                      ELSE Finish(r, [ran EXCEPT !.pc = "get",
                                        !.secret_id = secrets_list[i].id])
    /\ UNCHANGED <<token_env, proc, vault>>

\* What "bws secret get <id>" can give back on this vault.
GetOutputs(id) ==
    {ExecError, ExitFailure, Garbage} \cup
    { GetSuccess(vault[i]) : i \in {j \in DOMAIN vault : vault[j].id = id} }

\* Step 2: "bws secret get <id>", parse, answer.
HandlerGet(r) ==
    /\ req[r].pc = "get"
    /\ \E out \in GetOutputs(req[r].secret_id) :
         LET cur == req[r]
             ran == [cur EXCEPT !.calls = Append(@, [op |-> "get", arg |-> cur.secret_id]),
                                !.outs = Append(@, out),
                                !.pc = "done"]
         IN  IF out.kind = "exit_fail"
             THEN Finish(r, [ran EXCEPT !.resp = GetFailedResponse(out)])
             ELSE IF out.kind = "exec_err"
             THEN Finish(r, [ran EXCEPT !.resp = GetExecResponse(out)])
             ELSE IF out.json # "object"
             THEN Finish(r, [ran EXCEPT !.resp = GetParseResponse])
             ELSE Finish(r, [ran EXCEPT !.resp = SecretResponse(out)])
    /\ UNCHANGED <<token_env, proc, vault>>

Next ==
    \/ Start
    \/ \E r \in Reqs : HandlerParse(r)
    \/ \E r \in Reqs : HandlerList(r)
    \/ \E r \in Reqs : HandlerGet(r)

Spec == Init /\ [][Next]_vars

(* ======================= properties of the gateway ===================== *)
Done(r) == req[r].pc = "done"
Status(r) == req[r].resp.status
\* The list call of request r succeeded and its output parsed.
ListOk(r) ==
    /\ Len(req[r].outs) >= 1
    /\ req[r].outs[1].kind = "ok"
    /\ req[r].outs[1].json = "array"
\* The identifiers request r's list call returned (under ListOk).
Items(r) == req[r].outs[1].items
\* Positions of the identifiers with the requested name in the requested
\* organization.
MatchSet(r) ==
    { i \in DOMAIN Items(r) :
        /\ Items(r)[i].key = req[r].secret_key
        /\ Items(r)[i].organization_id = to_string(req[r].org_id) }
CallsOf(r, op) == { c \in DOMAIN req[r].calls : req[r].calls[c].op = op }
\* The last vault call of request r failed to run or exited non-zero.
LastCallFailed(r) ==
    /\ req[r].outs # <<>>
    /\ req[r].outs[Len(req[r].outs)].kind # "ok"
\* Some vault call of request r failed, failed to run, or gave unparsable output.
VaultFailure(r) ==
    \E c \in DOMAIN req[r].outs :
        \/ req[r].outs[c].kind # "ok"
        \/ req[r].outs[c].json = "garbage"
WellFormed(text) == text.form # "malformed"

\* C1: a request whose Authorization header is absent or differs from
\* "Bearer " + credential is answered 401 and makes no vault call.
C1_UnauthorizedNeverReachesVault ==
    \A r \in Reqs :
        (req[r].pc # "idle" /\ req[r].header # ExpectedHeader) =>
            /\ req[r].calls = <<>>
            /\ Done(r) => Status(r) = 401

\* C2: when the requested name, scoped to the requested organization, matches
\* exactly one listed identifier, get is called with that identifier's id and
\* no other, and a successful get is answered 200 with the value it returned.
C2_UniqueMatchResolves ==
    \A r \in Reqs :
        (ListOk(r) /\ Cardinality(MatchSet(r)) = 1) =>
            LET id == Items(r)[CHOOSE i \in MatchSet(r) : TRUE].id
                q == req[r]
            IN  /\ q.pc \in {"get", "done"}
                /\ \A c \in CallsOf(r, "get") : q.calls[c].arg = id
                /\ Done(r) =>
                     /\ Len(q.calls) = 2
                     /\ q.calls[2] = [op |-> "get", arg |-> id]
                     /\ (q.outs[2].kind = "ok" /\ q.outs[2].json = "object") =>
                          /\ Status(r) = 200
                          /\ q.resp.body.value = q.outs[2].value
                          /\ q.resp.body.value = ValueOf(id)
C2_Witness ==
    \E r \in Reqs :
        /\ ListOk(r) /\ Cardinality(MatchSet(r)) = 1
        /\ Len(Items(r)) = 2
        /\ Done(r) /\ Status(r) = 200

\* C3: when the requested name is the key of no identifier a successful list
\* call returned, the answer is 404 and get is never called.
C3_AbsentNameNotFound ==
    \A r \in Reqs :
        (ListOk(r) /\ \A i \in DOMAIN Items(r) : Items(r)[i].key # req[r].secret_key) =>
            /\ Done(r)
            /\ Status(r) = 404
            /\ CallsOf(r, "get") = {}
C3_Witness ==
    \E r \in Reqs :
        /\ ListOk(r)
        /\ Items(r) # <<>>
        /\ \A i \in DOMAIN Items(r) :
             /\ Items(r)[i].key # req[r].secret_key
             /\ Items(r)[i].organization_id = to_string(req[r].org_id)
        /\ Status(r) = 404

\* C4: a vault call is invoked again after each failure, so a failure is
\* returned only after MaxAttempts invocations of the failed operation.
C4_FailureOnlyAfterMaxAttempts ==
    \A r \in Reqs :
        (Done(r) /\ LastCallFailed(r)) =>
            Cardinality(CallsOf(r, req[r].calls[Len(req[r].calls)].op)) = MaxAttempts

\* C5: a malformed organization id is answered 400 with no vault call, and a
\* well-formed one is never answered 400.
C5_MalformedOrgIs400 ==
    \A r \in Reqs :
        req[r].pc # "idle" =>
            IF WellFormed(req[r].org_id_str)
            THEN Status(r) # 400
            ELSE Done(r) /\ Status(r) = 400 /\ req[r].calls = <<>>
C5_Witness ==
    \E r \in Reqs : ~WellFormed(req[r].org_id_str) /\ Done(r) /\ Status(r) = 400

\* C6: after a vault failure the response body carries no raw vault error
\* text; only the available-keys enumeration may be disclosed.
C6_NoRawErrorTextInBody ==
    \A r \in Reqs :
        (Done(r) /\ VaultFailure(r)) =>
            \A f \in DOMAIN req[r].resp.body \ {"available_secrets"} :
                req[r].resp.body[f] \notin RawErrorTexts

\* C7: every list or get call of a request is preceded by a login step of
\* that request.
C7_LoginBeforeVaultCalls ==
    \A r \in Reqs :
        \A c \in DOMAIN req[r].calls :
            req[r].calls[c].op \in {"list", "get"} =>
                \E l \in 1..(c - 1) : req[r].calls[l].op = "login"

\* C8: with the vault access token unset the process terminates without
\* binding the listener and no request is accepted; the listener is bound
\* only when the token check passed.
C8_NoTokenNoListener ==
    /\ token_env = "unset" =>
         /\ proc # "serving"
         /\ \A r \in Reqs : req[r] = IdleReq
    /\ proc = "serving" => token_env = "value"
    /\ (\E r \in Reqs : req[r] # IdleReq) => token_env = "value"
C8_Witness == token_env = "unset" /\ proc = "panicked"

\* C9: among several identifiers with the requested name in the requested
\* organization the first in list order is selected, the same for every
\* request against the same list result, and an identifier of another
\* organization is never selected.
C9_FirstScopedMatchSelected ==
    /\ \A r \in Reqs :
         (ListOk(r) /\ MatchSet(r) # {}) =>
             LET first == CHOOSE i \in MatchSet(r) : \A j \in MatchSet(r) : i <= j
             IN  /\ req[r].pc \in {"get", "done"}
                 /\ req[r].secret_id = Items(r)[first].id
                 /\ \A c \in CallsOf(r, "get") : req[r].calls[c].arg = Items(r)[first].id
    /\ \A r \in Reqs :
         req[r].secret_id # "" =>
             \E i \in DOMAIN Items(r) :
                 /\ Items(r)[i].id = req[r].secret_id
                 /\ Items(r)[i].organization_id = to_string(req[r].org_id)
    /\ \A r1, r2 \in Reqs :
         ( /\ ListOk(r1) /\ ListOk(r2)
           /\ Items(r1) = Items(r2)
           /\ req[r1].secret_key = req[r2].secret_key
           /\ req[r1].org_id = req[r2].org_id ) =>
             req[r1].secret_id = req[r2].secret_id
C9_Witness ==
    \E r \in Reqs :
        /\ ListOk(r)
        /\ Cardinality(MatchSet(r)) > 1
        /\ CallsOf(r, "get") # {}

====
